---------------------------- MODULE Spec2Model ----------------------------
(***************************************************************************)
(* A model of src/app.py: the YouTube quiz generator's request handler     *)
(* process_youtube_video with its content-acquisition fallback chain, and  *)
(* its pure helpers extract_video_id, clean_srt_to_plain_text and the      *)
(* reply parsing of generate_quiz / generate_quiz_from_description.        *)
(*                                                                         *)
(* Text is a sequence of symbols.  A URL is a sequence of tokens: each     *)
(* separator character ("/", "?", "&", "=", "#") is a token of its own and *)
(* every other token ("youtu.be", "watch", "abc123", ...) is a run of      *)
(* characters holding no separator, so that Python's substring tests and   *)
(* splits on the characters are the same tests and splits on the tokens.   *)
(* Subtitle text and generative replies are sequences of characters.       *)
(***************************************************************************)
EXTENDS Naturals, Integers, Sequences, FiniteSets, TLC

VARIABLES
    pc,                 \* position of the control flow
    youtube_url,        \* data.get('youtube_url'); <<>> when absent or empty
    num_in,             \* data.get('num_questions') as received
    video_id,           \* result of extract_video_id
    video_info,         \* result of get_video_info
    transcript_result,  \* the handler's transcript_result (strategy 1, then 2)
    strategy1,          \* what get_video_transcript returned
    strategy2,          \* how get_captions_from_youtube_api ended
    used_source,        \* the strategy whose text went to the synthesizer
    quiz_result,        \* result of generate_quiz[_from_description]
    content_source,     \* the handler's content_source
    response,           \* the HTTP response
    calls,              \* the calls made so far, in order
    response_text,      \* a generative reply (response.text)
    srt_content,        \* input of clean_srt_to_plain_text
    plain_text,         \* its output
    plain_twice         \* its output fed to it again

vars == <<pc, youtube_url, num_in, video_id, video_info, transcript_result,
          strategy1, strategy2, used_source, quiz_result, content_source,
          response, calls, response_text, srt_content, plain_text,
          plain_twice>>

handlerVars == <<num_in, video_info, transcript_result, strategy1, strategy2,
                 used_source, content_source, response, calls>>

----------------------------------------------------------------------------
(* Bounds of the model *)

\* query parameters in a generated URL
MaxParams == 2
\* characters in a generated generative reply
MaxReplyLen == 5
\* characters in a generated subtitle text
MaxSrtLen == 4

----------------------------------------------------------------------------
(* Python's str operations on sequences of symbols *)

\* needle in s
Contains(s, needle) ==
    \E i \in 0..(Len(s) - Len(needle)) :
        SubSeq(s, i + 1, i + Len(needle)) = needle

\* s.find(c) for a single symbol c: 0-based, -1 when absent
Find(s, c) ==
    IF \E i \in 1..Len(s) : s[i] = c
    THEN (CHOOSE i \in 1..Len(s) : s[i] = c /\ \A j \in 1..(i - 1) : s[j] # c) - 1
    ELSE -1

\* s.rfind(c) for a single symbol c: 0-based, -1 when absent
RFind(s, c) ==
    IF \E i \in 1..Len(s) : s[i] = c
    THEN (CHOOSE i \in 1..Len(s) : s[i] = c /\ \A j \in (i + 1)..Len(s) : s[j] # c) - 1
    ELSE -1

\* s[a:b] for 0 <= a, 0 <= b
PySlice(s, a, b) ==
    LET hi == IF b > Len(s) THEN Len(s) ELSE b
    IN  IF a >= hi THEN <<>> ELSE SubSeq(s, a + 1, hi)

\* s.split(c): always at least one piece
RECURSIVE Split(_, _)
Split(s, c) ==
    LET i == Find(s, c)
    IN  IF i = -1 THEN <<s>>
        ELSE <<PySlice(s, 0, i)>> \o Split(PySlice(s, i + 1, Len(s)), c)

\* s.split(c, 1)
SplitOnce(s, c) ==
    LET i == Find(s, c)
    IN  IF i = -1 THEN <<s>>
        ELSE <<PySlice(s, 0, i), PySlice(s, i + 1, Len(s))>>

Last(seq) == seq[Len(seq)]

----------------------------------------------------------------------------
(* extract_video_id *)

\* urllib.parse.urlparse(url).query: the fragment is cut at the first "#",
\* then the query is what follows the first "?"
UrlQuery(url) ==
    LET nofrag == SplitOnce(url, "#")[1]
        parts  == SplitOnce(nofrag, "?")
    IN  IF Len(parts) = 2 THEN parts[2] ELSE <<>>

\* urllib.parse.parse_qs(query)['v'] with the defaults keep_blank_values=False,
\* strict_parsing=False: fields are split on "&", a field without "=" or
\* with an empty value is dropped; the values of the fields named v, in order
RECURSIVE VValues(_)
VValues(fields) ==
    IF fields = <<>> THEN <<>>
    ELSE LET nv   == SplitOnce(Head(fields), "=")
             rest == VValues(Tail(fields))
         IN  IF Len(nv) = 2 /\ nv[2] # <<>> /\ nv[1] = <<"v">>
             THEN <<nv[2]>> \o rest
             ELSE rest

ParseQsV(query) == VValues(Split(query, "&"))

\* url.split("/")[-1].split("?")[0]
ShortLinkId(youtube_url_) == Split(Last(Split(youtube_url_, "/")), "?")[1]

\* the test of the first branch, "youtu.be" in youtube_url
IsShortForm(youtube_url_) == Contains(youtube_url_, <<"youtu.be">>)

\* the test of the second branch, "youtube.com/watch" in youtube_url
IsWatchForm(youtube_url_) == Contains(youtube_url_, <<"youtube.com", "/", "watch">>)

\* [status |-> "ok", id |-> ...] when it returns, [status |-> "ValueError"]
\* when it raises
extract_video_id(youtube_url_) ==
    IF IsShortForm(youtube_url_)
    THEN [status |-> "ok", id |-> ShortLinkId(youtube_url_)]
    ELSE IF IsWatchForm(youtube_url_)
    THEN LET vs == ParseQsV(UrlQuery(youtube_url_))
         IN  IF vs # <<>>
             THEN [status |-> "ok", id |-> vs[1]]
             ELSE [status |-> "ValueError",
                   message |-> "Invalid YouTube URL: missing video ID parameter"]
    ELSE [status |-> "ValueError",
          message |-> "Invalid YouTube URL format. Please use a standard YouTube URL"]

----------------------------------------------------------------------------
(* The URLs the model feeds to extract_video_id *)

VideoIds == {"abc123", "xyz789"}

Schemes == {<<>>, <<"https:", "/", "/">>}

Hosts == {<<"youtu.be">>, <<"www.", "youtube.com">>, <<"example.com">>}

Paths == {<<>>, <<"/">>, <<"/", "abc123">>, <<"/", "watch">>,
          <<"/", "abc123", "/">>, <<"/", "embed", "/", "xyz789">>}

ParamNames == {"v", "feature"}

ParamValues == {<<>>, <<"xyz789">>, <<"youtu.be">>}

Params == {<<n, "=">> \o v : n \in ParamNames, v \in ParamValues}

RECURSIVE JoinAmp(_)
JoinAmp(ps) ==
    IF ps = <<>> THEN <<>>
    ELSE IF Len(ps) = 1 THEN ps[1]
    ELSE ps[1] \o <<"&">> \o JoinAmp(Tail(ps))

QueryStrings ==
    {<<>>} \cup
    {<<"?">> \o JoinAmp(ps) :
        ps \in UNION {[1..n -> Params] : n \in 1..MaxParams}}

Fragments == {<<>>, <<"#", "abc123">>}

Urls ==
    {s \o h \o p \o q \o f :
        s \in Schemes, h \in Hosts, p \in Paths, q \in QueryStrings,
        f \in Fragments}

NoResult == [status |-> "none"]

NoResponse == [status |-> "none", code |-> 0]

NoText == <<>>

HandlerIdle ==
    /\ num_in = "absent"
    /\ video_info = NoResult
    /\ transcript_result = NoResult
    /\ strategy1 = NoResult
    /\ strategy2 = "none"
    /\ used_source = "none"
    /\ content_source = "none"
    /\ response = NoResponse
    /\ calls = <<>>

----------------------------------------------------------------------------
(* SpecUrl: extract_video_id applied to every generated URL *)

InitUrl ==
    /\ pc = "url"
    /\ youtube_url \in Urls
    /\ video_id = NoResult
    /\ HandlerIdle
    /\ quiz_result = NoResult
    /\ response_text = NoText
    /\ srt_content = NoText
    /\ plain_text = NoText
    /\ plain_twice = NoText

ExtractVideoId ==
    /\ pc = "url"
    /\ video_id' = extract_video_id(youtube_url)
    /\ pc' = "url_done"
    /\ UNCHANGED <<youtube_url, response_text, quiz_result, srt_content,
                   plain_text, plain_twice>>
    /\ UNCHANGED handlerVars

NextUrl == ExtractVideoId

SpecUrl == InitUrl /\ [][NextUrl]_vars

----------------------------------------------------------------------------
(* The URL shapes of the URL Parser's contract *)

StripScheme(url) ==
    IF Len(url) >= 3 /\ SubSeq(url, 1, 3) = <<"https:", "/", "/">>
    THEN SubSeq(url, 4, Len(url))
    ELSE url

\* a short link: youtu.be/<id>, then nothing or a query string
IsShortLinkShape(url) ==
    LET r == StripScheme(url)
    IN  /\ Len(r) >= 3
        /\ SubSeq(r, 1, 2) = <<"youtu.be", "/">>
        /\ r[3] \in VideoIds
        /\ (Len(r) = 3 \/ r[4] = "?")

\* a canonical watch URL: www.youtube.com/watch?v=<id>, then nothing or
\* further query parameters
IsCanonicalWatchShape(url) ==
    LET r == StripScheme(url)
    IN  /\ Len(r) >= 8
        /\ SubSeq(r, 1, 7) = <<"www.", "youtube.com", "/", "watch", "?", "v", "=">>
        /\ r[8] \in VideoIds
        /\ (Len(r) = 8 \/ r[9] = "&")

ShapeIdentifier(url) ==
    LET r == StripScheme(url)
    IN  IF IsShortLinkShape(url) THEN <<r[3]>> ELSE <<r[8]>>

\* C6: extract_video_id returns the identifier of every short-link URL and
\* of every canonical-watch URL, whatever query parameters follow, and
\* raises ValueError for every URL of any other shape.
C6_ExtractsIdentifier ==
    pc = "url_done" =>
        IF IsShortLinkShape(youtube_url) \/ IsCanonicalWatchShape(youtube_url)
        THEN /\ video_id.status = "ok"
             /\ video_id.id = ShapeIdentifier(youtube_url)
        ELSE video_id.status = "ValueError"

----------------------------------------------------------------------------
(* clean_srt_to_plain_text *)

SrtAlphabet == {"g", "t", "1", " ", "\n", "-", ">", "&"}

Digits == {"1"}

Whitespace == {" ", "\n"}

\* line.strip()
RECURSIVE Strip(_)
Strip(line) ==
    IF line = <<>> THEN line
    ELSE IF Head(line) \in Whitespace THEN Strip(Tail(line))
    ELSE IF Last(line) \in Whitespace THEN Strip(SubSeq(line, 1, Len(line) - 1))
    ELSE line

\* line.isdigit()
IsDigit(line) == line # <<>> /\ \A i \in 1..Len(line) : line[i] \in Digits

\* '-->' in line
HasArrow(line) == Contains(line, <<"-", "-", ">">>)

\* html.unescape(line).  Over SrtAlphabet the only character reference is
\* "&gt", which the standard library decodes without its semicolon, also
\* when more name characters follow it ("&gt1" gives ">1").
RECURSIVE HtmlUnescape(_)
HtmlUnescape(line) ==
    IF Len(line) < 3 THEN line
    ELSE IF SubSeq(line, 1, 3) = <<"&", "g", "t">>
    THEN <<">">> \o HtmlUnescape(SubSeq(line, 4, Len(line)))
    ELSE <<Head(line)>> \o HtmlUnescape(Tail(line))

\* SkipLine without its first test: blank lines are kept as content
SkipLineKeepsBlank(line) == IsDigit(line) \/ HasArrow(line)

\* the three "skip" tests of the loop, on the stripped line
SkipLine(line) == line = <<>> \/ IsDigit(line) \/ HasArrow(line)

\* what the loop appends for a content line
ContentOf(line) == HtmlUnescape(line)

\* ' '.join(plain_text)
RECURSIVE JoinSpace(_)
JoinSpace(parts) ==
    IF parts = <<>> THEN <<>>
    ELSE IF Len(parts) = 1 THEN parts[1]
    ELSE parts[1] \o <<" ">> \o JoinSpace(Tail(parts))

\* the while loop over lines: the list plain_text
RECURSIVE ContentLines(_)
ContentLines(lines) ==
    IF lines = <<>> THEN <<>>
    ELSE LET line == Strip(Head(lines))
         IN  IF SkipLine(line) THEN ContentLines(Tail(lines))
             ELSE <<ContentOf(line)>> \o ContentLines(Tail(lines))

clean_srt_to_plain_text(srt_content_) ==
    JoinSpace(ContentLines(Split(srt_content_, "\n")))

----------------------------------------------------------------------------
(* The reply parsing of generate_quiz and generate_quiz_from_description *)

ReplyAlphabet == {"[", "]", "1", ",", " ", "x"}

JsonFail == [ok |-> FALSE, val |-> <<>>, next |-> 0]

\* the index of the first symbol at or after i that is not JSON whitespace
RECURSIVE SkipWs(_, _)
SkipWs(s, i) == IF i <= Len(s) /\ s[i] = " " THEN SkipWs(s, i + 1) ELSE i

\* the index after the run of digits that starts at i
RECURSIVE DigitsEnd(_, _)
DigitsEnd(s, i) == IF i <= Len(s) /\ s[i] = "1" THEN DigitsEnd(s, i + 1) ELSE i

RECURSIVE Ones(_)
Ones(n) == IF n = 0 THEN 0 ELSE 10 * Ones(n - 1) + 1

\* json's scanner over ReplyAlphabet: a number or an array of values.
\* A value is <<"num", n>> or <<"arr", <<values>>>>.
RECURSIVE ParseValue(_, _)
RECURSIVE ParseElems(_, _, _)
ParseValue(s, i) ==
    IF i > Len(s) THEN JsonFail
    ELSE IF s[i] = "1"
    THEN [ok |-> TRUE, val |-> <<"num", Ones(DigitsEnd(s, i) - i)>>,
          next |-> DigitsEnd(s, i)]
    ELSE IF s[i] = "["
    THEN LET k == SkipWs(s, i + 1)
         IN  IF k <= Len(s) /\ s[k] = "]"
             THEN [ok |-> TRUE, val |-> <<"arr", <<>>>>, next |-> k + 1]
             ELSE ParseElems(s, k, <<>>)
    ELSE JsonFail

ParseElems(s, i, acc) ==
    LET v == ParseValue(s, i)
    IN  IF ~v.ok THEN JsonFail
        ELSE LET k == SkipWs(s, v.next)
             IN  IF k > Len(s) THEN JsonFail
                 ELSE IF s[k] = ","
                 THEN ParseElems(s, SkipWs(s, k + 1), Append(acc, v.val))
                 ELSE IF s[k] = "]"
                 THEN [ok |-> TRUE, val |-> <<"arr", Append(acc, v.val)>>,
                       next |-> k + 1]
                 ELSE JsonFail

\* json.loads(s): [ok |-> FALSE] stands for JSONDecodeError
JsonLoads(s) ==
    LET v == ParseValue(s, SkipWs(s, 1))
    IN  IF v.ok /\ SkipWs(s, v.next) = Len(s) + 1
        THEN [ok |-> TRUE, val |-> v.val]
        ELSE [ok |-> FALSE, val |-> <<>>]

\* StartIdx taking the last "[" instead of the first
StartIdxLast(response_text_) == RFind(response_text_, "[")

\* start_idx = response_text.find('[')
StartIdx(response_text_) == Find(response_text_, "[")

\* end_idx = response_text.rfind(']') + 1
EndIdx(response_text_) == RFind(response_text_, "]") + 1

\* the inner try of generate_quiz
ParseQuizReply(response_text_) ==
    LET start_idx == StartIdx(response_text_)
        end_idx   == EndIdx(response_text_)
    IN  IF start_idx # -1 /\ end_idx # -1
        THEN LET quiz_data == JsonLoads(PySlice(response_text_, start_idx, end_idx))
             IN  IF quiz_data.ok
                 THEN [status |-> "success", quiz |-> quiz_data.val]
                 ELSE [status |-> "error", message |-> "Failed to parse quiz data"]
        ELSE [status |-> "error",
              message |-> "Invalid response format from Gemini API"]

\* the inner try of generate_quiz_from_description: the same code again
ParseDescriptionQuizReply(response_text_) ==
    LET start_idx == Find(response_text_, "[")
        end_idx   == RFind(response_text_, "]") + 1
    IN  IF start_idx # -1 /\ end_idx # -1
        THEN LET quiz_data == JsonLoads(PySlice(response_text_, start_idx, end_idx))
             IN  IF quiz_data.ok
                 THEN [status |-> "success", quiz |-> quiz_data.val]
                 ELSE [status |-> "error", message |-> "Failed to parse quiz data"]
        ELSE [status |-> "error",
              message |-> "Invalid response format from Gemini API"]

\* What the generative-text service does with a prompt: it raises, or it
\* answers with a text.
GeminiRaised == [kind |-> "exception"]

GeminiText(text) == [kind |-> "text", text |-> text]

generate_quiz(reply) ==
    IF reply.kind = "exception"
    THEN [status |-> "error", message |-> "exception"]
    ELSE ParseQuizReply(reply.text)

generate_quiz_from_description(reply) ==
    IF reply.kind = "exception"
    THEN [status |-> "error", message |-> "exception"]
    ELSE ParseDescriptionQuizReply(reply.text)

\* all texts over an alphabet of at most n symbols
Texts(alphabet, n) == UNION {[1..k -> alphabet] : k \in 0..n}

----------------------------------------------------------------------------
(* SpecSrt: clean_srt_to_plain_text applied to every short subtitle text, *)
(* and then to its own output                                             *)

InitSrt ==
    /\ pc = "srt"
    /\ srt_content \in Texts(SrtAlphabet, MaxSrtLen)
    /\ plain_text = NoText
    /\ plain_twice = NoText
    /\ youtube_url = <<>>
    /\ video_id = NoResult
    /\ HandlerIdle
    /\ quiz_result = NoResult
    /\ response_text = NoText

CleanSrt ==
    /\ pc = "srt"
    /\ plain_text' = clean_srt_to_plain_text(srt_content)
    /\ pc' = "srt_cleaned"
    /\ UNCHANGED <<youtube_url, video_id, response_text, quiz_result,
                   srt_content, plain_twice>>
    /\ UNCHANGED handlerVars

CleanAgain ==
    /\ pc = "srt_cleaned"
    /\ plain_twice' = clean_srt_to_plain_text(plain_text)
    /\ pc' = "srt_done"
    /\ UNCHANGED <<youtube_url, video_id, response_text, quiz_result,
                   srt_content, plain_text>>
    /\ UNCHANGED handlerVars

NextSrt == CleanSrt \/ CleanAgain

SpecSrt == InitSrt /\ [][NextSrt]_vars

----------------------------------------------------------------------------
(* SpecQuiz: both synthesizers applied to every short generative reply *)

InitQuiz ==
    /\ pc = "quiz"
    /\ response_text \in Texts(ReplyAlphabet, MaxReplyLen)
    /\ quiz_result = NoResult
    /\ youtube_url = <<>>
    /\ video_id = NoResult
    /\ HandlerIdle
    /\ srt_content = NoText
    /\ plain_text = NoText
    /\ plain_twice = NoText

GenerateQuiz ==
    /\ pc = "quiz"
    /\ quiz_result' = generate_quiz(GeminiText(response_text))
    /\ pc' = "quiz_done"
    /\ UNCHANGED <<youtube_url, video_id, response_text, srt_content,
                   plain_text, plain_twice>>
    /\ UNCHANGED handlerVars

GenerateQuizFromDescription ==
    /\ pc = "quiz"
    /\ quiz_result' = generate_quiz_from_description(GeminiText(response_text))
    /\ pc' = "description_quiz_done"
    /\ UNCHANGED <<youtube_url, video_id, response_text, srt_content,
                   plain_text, plain_twice>>
    /\ UNCHANGED handlerVars

NextQuiz == GenerateQuiz \/ GenerateQuizFromDescription

SpecQuiz == InitQuiz /\ [][NextQuiz]_vars

----------------------------------------------------------------------------
(* get_video_info *)

\* What youtube.videos().list(...).execute() does: it raises, or it returns
\* a response with its list of items.
MetadataOutcomes ==
    {[kind |-> "HttpError"], [kind |-> "Exception"],
     [kind |-> "items", items |-> <<>>]} \cup
    {[kind |-> "items",
      items |-> <<[title |-> "title", description |-> d]>>] :
        d \in {<<"g">>, <<"g", " ", "t">>}}

get_video_info(video_id_, out) ==
    IF out.kind = "HttpError"
    THEN [status |-> "error", message |-> "YouTube API error"]
    ELSE IF out.kind = "Exception"
    THEN [status |-> "error", message |-> "exception"]
    ELSE IF out.items = <<>>
    THEN [status |-> "error",
          message |-> "Video not found. Please check the URL and try again."]
    ELSE [status |-> "success", title |-> out.items[1].title,
          description |-> out.items[1].description, video_id |-> video_id_]

----------------------------------------------------------------------------
(* get_video_transcript *)

\* What the transcript provider does: list_transcripts raises or returns
\* the languages of the tracks; the first track can or cannot be translated;
\* fetch returns the parts or raises.
TranscriptOutcomes ==
    [listing : {"ok", "TranscriptsDisabled", "NoTranscriptFound", "Exception"},
     tracks : {<<>>, <<"en">>, <<"fr", "en-GB">>, <<"fr">>},
     translatable : BOOLEAN,
     fetch : {"ok", "Exception"}]

HasLanguage(tracks, codes) == \E i \in 1..Len(tracks) : tracks[i] \in codes

\* the track-selection policy: "found", or how the selection ends
SelectTranscript(out) ==
    IF HasLanguage(out.tracks, {"en"}) THEN "found"
    ELSE IF HasLanguage(out.tracks, {"en-US", "en-GB"}) THEN "found"
    ELSE IF out.tracks = <<>> THEN "IndexError"
    ELSE IF out.translatable THEN "found"
    ELSE "Exception"

NoTranscriptMessage ==
    "No transcript available for this video. Please choose a video with captions."

get_video_transcript(out) ==
    IF out.listing \in {"TranscriptsDisabled", "NoTranscriptFound"}
    THEN [status |-> "error", message |-> NoTranscriptMessage]
    ELSE IF out.listing = "Exception"
    THEN [status |-> "error", message |-> "Error retrieving transcript"]
    ELSE IF SelectTranscript(out) = "IndexError"
    THEN [status |-> "error", message |-> NoTranscriptMessage]
    ELSE IF SelectTranscript(out) = "Exception" \/ out.fetch = "Exception"
    THEN [status |-> "error", message |-> "Error retrieving transcript"]
    ELSE [status |-> "success", text |-> <<"g", "t">>]

----------------------------------------------------------------------------
(* get_captions_from_youtube_api *)

\* The bodies an HttpError of the caption API can carry (e.content)
HttpBodies ==
    {"forbidden", "quotaExceeded", "no_reason", "empty_errors", "not_object",
     "not_json", "not_utf8"}

\* lines 169-170, run inside the except clause: the reason, or the exception
\* that json.loads, decode, [0] or .get raises there
ErrorReason(body) ==
    CASE body = "forbidden"     -> [raised |-> "none", reason |-> "forbidden"]
      [] body = "quotaExceeded" -> [raised |-> "none", reason |-> "quotaExceeded"]
      [] body = "no_reason"     -> [raised |-> "none", reason |-> ""]
      [] body = "empty_errors"  -> [raised |-> "IndexError", reason |-> ""]
      [] body = "not_object"    -> [raised |-> "AttributeError", reason |-> ""]
      [] body = "not_json"      -> [raised |-> "JSONDecodeError", reason |-> ""]
      [] body = "not_utf8"      -> [raised |-> "UnicodeDecodeError", reason |-> ""]

\* the "except HttpError" clause.  An exception raised inside it is not
\* caught by the "except Exception" clause that follows it: it leaves the
\* function.
OnCaptionsHttpError(body) ==
    LET r == ErrorReason(body)
    IN  IF r.raised # "none"
        THEN [status |-> "raised", exception |-> r.raised]
        ELSE IF r.reason = "forbidden"
        THEN [status |-> "error",
              message |-> "Unable to access captions due to permission restrictions"]
        ELSE [status |-> "error", message |-> "YouTube API error"]

CaptionTracks ==
    {<<>>,
     <<[id |-> "c1", language |-> "fr"]>>,
     <<[id |-> "c1", language |-> "fr"], [id |-> "c2", language |-> "en-GB"]>>}

SrtSamples ==
    {<<"1", "\n", "-", "-", ">", "\n", "g", "\n", "\n", "1", "1", "\n", "-",
       "-", ">", "\n", "t", " ", "&", "g", "t">>,
     <<>>}

CaptionsOutcomes ==
    {[list |-> "HttpError", body |-> b] : b \in HttpBodies} \cup
    {[list |-> "Exception"]} \cup
    {[list |-> "ok", tracks |-> t, download |-> "HttpError", body |-> b] :
        t \in CaptionTracks, b \in HttpBodies} \cup
    {[list |-> "ok", tracks |-> t, download |-> "Exception"] :
        t \in CaptionTracks} \cup
    {[list |-> "ok", tracks |-> t, download |-> "ok", data |-> d] :
        t \in CaptionTracks, d \in SrtSamples}

\* the choice of caption_id: the first English track, else the first track
SelectCaption(tracks) ==
    IF \E i \in 1..Len(tracks) : tracks[i].language \in {"en", "en-US", "en-GB"}
    THEN tracks[CHOOSE i \in 1..Len(tracks) :
                    /\ tracks[i].language \in {"en", "en-US", "en-GB"}
                    /\ \A j \in 1..(i - 1) :
                           tracks[j].language \notin {"en", "en-US", "en-GB"}].id
    ELSE tracks[1].id

get_captions_from_youtube_api(out) ==
    IF out.list = "HttpError" THEN OnCaptionsHttpError(out.body)
    ELSE IF out.list = "Exception"
    THEN [status |-> "error", message |-> "Error retrieving captions"]
    ELSE IF out.tracks = <<>>
    THEN [status |-> "error", message |-> "No captions available for this video"]
    ELSE IF out.download = "HttpError" THEN OnCaptionsHttpError(out.body)
    ELSE IF out.download = "Exception"
    THEN [status |-> "error", message |-> "Error retrieving captions"]
    ELSE [status |-> "success", caption_id |-> SelectCaption(out.tracks),
          text |-> clean_srt_to_plain_text(out.data)]

----------------------------------------------------------------------------
(* process_youtube_video *)

\* the request bodies the model sends
UrlSamples ==
    {<<>>,
     <<"https:", "/", "/", "youtu.be", "/", "abc123", "?", "t", "=", "5">>,
     <<"https:", "/", "/", "www.", "youtube.com", "/", "watch", "?", "v", "=",
       "xyz789", "&", "list", "=", "PL1">>,
     <<"https:", "/", "/", "www.", "youtube.com", "/", "watch", "?", "list",
       "=", "PL1">>,
     <<"https:", "/", "/", "example.com", "/", "abc123">>}

\* short links without an identifier
BareShortLinks ==
    {<<"https:", "/", "/", "youtu.be", "/">>,
     <<"https:", "/", "/", "youtu.be", "/", "?", "t", "=", "5">>}

NumQuestionsInputs == {"absent", "3", "invalid"}

ReplySamples ==
    {<<"[", "1", "]">>, <<"x", "[", "1", ",", "1", "]", "x">>, <<"x">>,
     <<"[", "1">>}

GeminiOutcomes == {GeminiRaised} \cup {GeminiText(t) : t \in ReplySamples}

\* int(data.get('num_questions', 5)): the number, or that int() raises
NumQuestions(raw) ==
    IF raw = "absent" THEN [raised |-> FALSE, value |-> 5]
    ELSE IF raw = "3" THEN [raised |-> FALSE, value |-> 3]
    ELSE [raised |-> TRUE, value |-> 0]

\* the handler's two except clauses: JSONDecodeError and UnicodeDecodeError
\* are subclasses of ValueError
IsValueError(exception) ==
    exception \in {"ValueError", "JSONDecodeError", "UnicodeDecodeError"}

OnException(exception) ==
    IF IsValueError(exception)
    THEN [status |-> "error", code |-> 400, message |-> exception]
    ELSE [status |-> "error", code |-> 500, message |-> exception]

\* jsonify(result), 500
ServerError(result) ==
    [status |-> "error", code |-> 500, message |-> result.message]

\* AfterVideoInfo without the early return
AfterVideoInfoContinues(video_info_) == "get_video_transcript"

\* where control goes after get_video_info returned
AfterVideoInfo(video_info_) ==
    IF video_info_.status = "error" THEN "done" ELSE "get_video_transcript"

\* AfterTranscript without its test: the second strategy always runs
AfterTranscriptAlways(transcript_result_) == "get_captions_from_youtube_api"

\* the second strategy runs only when the first returned an error
AfterTranscript(transcript_result_) ==
    IF transcript_result_.status = "error"
    THEN "get_captions_from_youtube_api"
    ELSE "synthesize"

\* the branch of the synthesis
SynthesisBranch(transcript_result_) ==
    IF transcript_result_.status = "success"
    THEN "generate_quiz"
    ELSE "generate_quiz_from_description"

\* content_source in the first branch
TranscriptSource == "transcript"

\* DescriptionSource with the label of the first branch
DescriptionSourceMislabelled == "transcript"

\* content_source in the second branch
DescriptionSource == "description"

\* AfterSynthesis falling back to the description when synthesis failed
AfterSynthesisFallsBack(quiz_result_) ==
    IF quiz_result_.status = "error"
    THEN "generate_quiz_from_description"
    ELSE "respond"

\* after either synthesizer returned, the handler builds the response
AfterSynthesis(quiz_result_) == "respond"

RequestIdle ==
    /\ video_id = NoResult
    /\ video_info = NoResult
    /\ transcript_result = NoResult
    /\ strategy1 = NoResult
    /\ strategy2 = "none"
    /\ used_source = "none"
    /\ quiz_result = NoResult
    /\ content_source = "none"
    /\ response = NoResponse
    /\ calls = <<>>
    /\ response_text = NoText
    /\ srt_content = NoText
    /\ plain_text = NoText
    /\ plain_twice = NoText

Init ==
    /\ pc = "request"
    /\ youtube_url \in UrlSamples
    /\ num_in \in NumQuestionsInputs
    /\ RequestIdle

pureVars == <<response_text, srt_content, plain_text, plain_twice>>

\* lines 362-371: the request is read and the video id extracted
ReceiveRequest ==
    /\ pc = "request"
    /\ IF NumQuestions(num_in).raised
       THEN \* int() raises outside the try: the framework answers 500
            /\ response' = [status |-> "error", code |-> 500,
                            message |-> "unhandled"]
            /\ pc' = "done"
            /\ UNCHANGED video_id
       ELSE IF youtube_url = <<>>
       THEN /\ response' = [status |-> "error", code |-> 400,
                            message |-> "YouTube URL is required"]
            /\ pc' = "done"
            /\ UNCHANGED video_id
       ELSE /\ video_id' = extract_video_id(youtube_url)
            /\ IF video_id'.status = "ValueError"
               THEN /\ response' = OnException("ValueError")
                    /\ pc' = "done"
               ELSE /\ pc' = "get_video_info"
                    /\ UNCHANGED response
    /\ UNCHANGED <<youtube_url, num_in, video_info, transcript_result,
                   strategy1, strategy2, used_source, quiz_result,
                   content_source, calls>>
    /\ UNCHANGED pureVars

\* lines 374-376
CallGetVideoInfo ==
    /\ pc = "get_video_info"
    /\ \E out \in MetadataOutcomes :
           video_info' = get_video_info(video_id.id, out)
    /\ calls' = Append(calls, [fn |-> "get_video_info", arg |-> video_id.id])
    /\ pc' = AfterVideoInfo(video_info')
    /\ response' = IF pc' = "done" THEN ServerError(video_info') ELSE response
    /\ UNCHANGED <<youtube_url, num_in, video_id, transcript_result,
                   strategy1, strategy2, used_source, quiz_result,
                   content_source>>
    /\ UNCHANGED pureVars

\* lines 379-383
CallGetVideoTranscript ==
    /\ pc = "get_video_transcript"
    /\ \E out \in TranscriptOutcomes :
           transcript_result' = get_video_transcript(out)
    /\ strategy1' = transcript_result'
    /\ calls' = Append(calls, [fn |-> "get_video_transcript",
                               arg |-> video_id.id])
    /\ used_source' = IF transcript_result'.status = "success"
                      THEN "transcript" ELSE used_source
    /\ pc' = AfterTranscript(transcript_result')
    /\ UNCHANGED <<youtube_url, num_in, video_id, video_info, strategy2,
                   quiz_result, content_source, response>>
    /\ UNCHANGED pureVars

\* line 384, and the except clauses of lines 415-420 when the call raises
CallGetCaptions ==
    /\ pc = "get_captions_from_youtube_api"
    /\ calls' = Append(calls, [fn |-> "get_captions_from_youtube_api",
                               arg |-> video_id.id])
    /\ \E out \in CaptionsOutcomes :
           LET r == get_captions_from_youtube_api(out)
           IN  IF r.status = "raised"
               THEN /\ strategy2' = "raised"
                    /\ response' = OnException(r.exception)
                    /\ pc' = "done"
                    /\ UNCHANGED <<transcript_result, used_source>>
               ELSE /\ strategy2' = r.status
                    /\ transcript_result' = r
                    /\ used_source' = IF r.status = "success"
                                      THEN "captions" ELSE used_source
                    /\ pc' = "synthesize"
                    /\ UNCHANGED response
    /\ UNCHANGED <<youtube_url, num_in, video_id, video_info, strategy1,
                   quiz_result, content_source>>
    /\ UNCHANGED pureVars

\* line 387: the test that picks the synthesizer
Synthesize ==
    /\ pc = "synthesize"
    /\ pc' = SynthesisBranch(transcript_result)
    /\ UNCHANGED <<youtube_url, num_in, video_id, video_info,
                   transcript_result, strategy1, strategy2, used_source,
                   quiz_result, content_source, response, calls>>
    /\ UNCHANGED pureVars

\* lines 389-394
CallGenerateQuiz ==
    /\ pc = "generate_quiz"
    /\ \E reply \in GeminiOutcomes : quiz_result' = generate_quiz(reply)
    /\ calls' = Append(calls, [fn |-> "generate_quiz",
                               arg |-> transcript_result.text,
                               num_questions |-> NumQuestions(num_in).value])
    /\ content_source' = TranscriptSource
    /\ pc' = AfterSynthesis(quiz_result')
    /\ UNCHANGED <<youtube_url, num_in, video_id, video_info,
                   transcript_result, strategy1, strategy2, used_source,
                   response>>
    /\ UNCHANGED pureVars

\* lines 397-403
CallGenerateQuizFromDescription ==
    /\ pc = "generate_quiz_from_description"
    /\ \E reply \in GeminiOutcomes :
           quiz_result' = generate_quiz_from_description(reply)
    /\ calls' = Append(calls, [fn |-> "generate_quiz_from_description",
                               arg |-> video_info.description,
                               num_questions |-> NumQuestions(num_in).value])
    /\ content_source' = DescriptionSource
    /\ used_source' = "description"
    /\ pc' = AfterSynthesis(quiz_result')
    /\ UNCHANGED <<youtube_url, num_in, video_id, video_info,
                   transcript_result, strategy1, strategy2, response>>
    /\ UNCHANGED pureVars

\* lines 405-413
Respond ==
    /\ pc = "respond"
    /\ response' =
           IF quiz_result.status = "error"
           THEN ServerError(quiz_result)
           ELSE [status |-> "success", code |-> 200,
                 video_title |-> video_info.title,
                 quiz |-> quiz_result.quiz,
                 content_source |-> content_source]
    /\ pc' = "done"
    /\ UNCHANGED <<youtube_url, num_in, video_id, video_info,
                   transcript_result, strategy1, strategy2, used_source,
                   quiz_result, content_source, calls>>
    /\ UNCHANGED pureVars

Next ==
    \/ ReceiveRequest
    \/ CallGetVideoInfo
    \/ CallGetVideoTranscript
    \/ CallGetCaptions
    \/ Synthesize
    \/ CallGenerateQuiz
    \/ CallGenerateQuizFromDescription
    \/ Respond

Spec == Init /\ [][Next]_vars

\* the same handler, also sent the short links without an identifier
InitAnyUrl ==
    /\ pc = "request"
    /\ youtube_url \in UrlSamples \cup BareShortLinks
    /\ num_in \in NumQuestionsInputs
    /\ RequestIdle

SpecAnyUrl == InitAnyUrl /\ [][Next]_vars

----------------------------------------------------------------------------
(* Properties of process_youtube_video, checked under Spec (C7: SpecAnyUrl) *)

Called(fn) == \E i \in 1..Len(calls) : calls[i].fn = fn

UrlMissingOrMalformed ==
    youtube_url = <<>> \/ extract_video_id(youtube_url).status = "ValueError"

\* C1: once metadata succeeded and the transcript lookup failed, every
\* failure of get_captions_from_youtube_api falls through to the
\* description: generate_quiz_from_description is called with the video's
\* description and a successful response is tagged "description".
C1_CaptionsFailureFallsThrough ==
    (pc = "done" /\ strategy2 \in {"error", "raised"}) =>
        /\ \E i \in 1..Len(calls) :
               /\ calls[i].fn = "generate_quiz_from_description"
               /\ calls[i].arg = video_info.description
        /\ quiz_result.status = "success" =>
               /\ response.status = "success"
               /\ response.content_source = "description"

\* C2: an error response is a 400 only when the URL is missing or
\* malformed; every other failure is a 500.
C2_ClientErrorOnlyForUrl ==
    (pc = "done" /\ response.status = "error") =>
        /\ response.code = 400 => UrlMissingOrMalformed
        /\ ~UrlMissingOrMalformed => response.code = 500

\* C3: when get_video_transcript returned success, the caption-API fallback
\* is never called and the description is never used; the fallback is called
\* only after strategy 1 returned an error.
C3_TranscriptSuccessShortCircuits ==
    /\ strategy1.status = "success" =>
           /\ ~Called("get_captions_from_youtube_api")
           /\ ~Called("generate_quiz_from_description")
           /\ strategy2 = "none"
           /\ used_source = "transcript"
    /\ Called("get_captions_from_youtube_api") => strategy1.status = "error"

C3_Witness ==
    /\ pc = "done"
    /\ strategy1.status = "success"
    /\ response.status = "success"
    /\ Called("generate_quiz")

\* C4: when get_video_info returned an error, the request ends with an
\* error response and nothing but get_video_info has been called.
C4_MetadataFailureStops ==
    video_info.status = "error" =>
        /\ pc = "done"
        /\ response.status = "error"
        /\ response.code = 500
        /\ Len(calls) = 1
        /\ calls[1].fn = "get_video_info"

C4_Witness ==
    /\ pc = "done"
    /\ video_info.status = "error"
    /\ response.message = "Video not found. Please check the URL and try again."

\* C5 as claimed: a successful response is tagged with the source that
\* produced the text, one of transcript, captions and description.
C5_ThreeSourcesTagged ==
    (pc = "done" /\ response.status = "success") =>
        response.content_source = used_source

\* C5 as amended: a successful response is tagged "description" exactly
\* when the description produced the text, and "transcript" when the
\* transcript provider or the caption API did.
C5_TwoSourcesTagged ==
    (pc = "done" /\ response.status = "success") =>
        /\ used_source \in {"transcript", "captions", "description"}
        /\ response.content_source =
               IF used_source = "description" THEN "description"
               ELSE "transcript"

C5_Witness ==
    /\ pc = "done"
    /\ response.status = "success"
    /\ used_source = "captions"
    /\ response.content_source = "transcript"

\* C7: extract_video_id never returns an empty identifier, and no
\* downstream step is called with one.
C7_VideoRefNonEmpty ==
    /\ video_id.status = "ok" => video_id.id # <<>>
    /\ \A i \in 1..Len(calls) :
           calls[i].fn \in {"get_video_info", "get_video_transcript",
                            "get_captions_from_youtube_api"}
               => calls[i].arg # <<>>

\* C10: no retries: within a request every function is called at most once,
\* and exactly one of the two synthesizers has been called, never both, when
\* the response is built.
C10_NoRetries ==
    /\ \A i, j \in 1..Len(calls) : i # j => calls[i].fn # calls[j].fn
    /\ ~(Called("generate_quiz") /\ Called("generate_quiz_from_description"))
    /\ pc = "respond" =>
           (Called("generate_quiz") \/ Called("generate_quiz_from_description"))

C10_Witness ==
    /\ pc = "done"
    /\ strategy1.status = "error"
    /\ strategy2 = "error"
    /\ Len(calls) = 4
    /\ response.status = "success"

----------------------------------------------------------------------------
(* Properties of the reply parsing, checked under SpecQuiz *)

HasOpen(text) == \E i \in 1..Len(text) : text[i] = "["

HasClose(text) == \E i \in 1..Len(text) : text[i] = "]"

FirstOpen(text) ==
    CHOOSE i \in 1..Len(text) : text[i] = "[" /\ \A j \in 1..(i - 1) : text[j] # "["

LastClose(text) ==
    CHOOSE i \in 1..Len(text) :
        text[i] = "]" /\ \A j \in (i + 1)..Len(text) : text[j] # "]"

\* the reply from its first "[" through its last "]"
BracketSlice(text) ==
    [k \in 1..(LastClose(text) - FirstOpen(text) + 1) |->
        text[FirstOpen(text) + k - 1]]

SliceParses(text) ==
    HasOpen(text) /\ HasClose(text) /\ JsonLoads(BracketSlice(text)).ok

\* C8: both synthesizers return an error when the reply has no "[", no "]"
\* or a slice that is not JSON; they return success only when the slice
\* from the first "[" through the last "]" parses, with exactly its value.
C8_MalformedReplyIsError ==
    pc \in {"quiz_done", "description_quiz_done"} =>
        /\ ~SliceParses(response_text) => quiz_result.status = "error"
        /\ quiz_result.status = "success" =>
               /\ SliceParses(response_text)
               /\ quiz_result.quiz = JsonLoads(BracketSlice(response_text)).val

C8_Witness ==
    /\ pc = "description_quiz_done"
    /\ response_text = <<"x", "[", "1", "]", "x">>
    /\ quiz_result = [status |-> "success", quiz |-> <<"arr", <<<<"num", 1>>>>>>]

----------------------------------------------------------------------------
(* Properties of clean_srt_to_plain_text, checked under SpecSrt *)

TrimmedLines(text) ==
    LET lines == Split(text, "\n")
    IN  [i \in 1..Len(lines) |-> Strip(lines[i])]

IsNonBlank(line) == line # <<>>

NonBlankLines(text) == SelectSeq(TrimmedLines(text), IsNonBlank)

RECURSIVE SpaceJoined(_)
SpaceJoined(parts) ==
    IF parts = <<>> THEN <<>>
    ELSE IF Len(parts) = 1 THEN parts[1]
    ELSE SpaceJoined(SubSeq(parts, 1, Len(parts) - 1)) \o <<" ">> \o Last(parts)

\* no digit-only line and no line with the "-->" token
AlreadyPlain(text) ==
    \A i \in 1..Len(TrimmedLines(text)) :
        /\ ~IsDigit(TrimmedLines(text)[i])
        /\ ~HasArrow(TrimmedLines(text)[i])

HasCharRef(text) == Contains(text, <<"&", "g", "t">>)

\* C9 as claimed: on a text with no digit-only line and no "-->" line the
\* output is the text's non-blank lines, in order and unchanged, joined by
\* single spaces, and cleaning the output again returns it unchanged.
C9_IdempotentOnPlainText ==
    (pc = "srt_done" /\ AlreadyPlain(srt_content)) =>
        /\ plain_text = SpaceJoined(NonBlankLines(srt_content))
        /\ plain_twice = plain_text

\* C9 as amended: the same, for texts that also hold no character
\* reference.
C9_IdempotentWithoutCharRefs ==
    (pc = "srt_done" /\ AlreadyPlain(srt_content) /\ ~HasCharRef(srt_content)) =>
        /\ plain_text = SpaceJoined(NonBlankLines(srt_content))
        /\ plain_twice = plain_text

C9_Witness ==
    /\ pc = "srt_done"
    /\ AlreadyPlain(srt_content)
    /\ ~HasCharRef(srt_content)
    /\ Len(NonBlankLines(srt_content)) = 2
    /\ Len(plain_text) < Len(srt_content)
    /\ plain_twice = plain_text

=============================================================================
